---- MODULE Spec2Model ----
(***************************************************************************)
(* The model-availability discovery sweep of vertex_on_demand.py:         *)
(*   - the probe, check_model_availability           (SpecProbe)           *)
(*   - the region aggregator, check_model_in_regions (SpecRegions)         *)
(*   - the sweep coordinator, discover_models        (Spec)                *)
(*   - the catalog source, get_model_patterns        (SpecCatalog)         *)
(*   - the worker pool of the sweep, units counted   (SpecPool)            *)
(*   - the sweep under fair scheduling               (SpecFair)            *)
(* and the request payload of gemini3pro-deepthink.py (SpecPayload).       *)
(*                                                                         *)
(* A Python str whose characters the program reads (it is sorted, matched  *)
(* or searched) is a sequence of one-character strings; a str the program  *)
(* only passes on (a region name, a status) is a TLA+ string.  An optional *)
(* value is a sequence of length 0 (None) or 1.                            *)
(***************************************************************************)
EXTENDS Integers, Sequences, FiniteSets, TLC

VARIABLES
    \* ---- check_model_availability, one call (SpecProbe)
    p_pc,               \* "idle" | "call" | "returned" | "raised"
    p_args,             \* [publisher, model_id, region] of the call
    p_response,         \* what requests.post did: a response, a timeout, an exception
    p_result,           \* the value returned (None or a dict)
    \* ---- check_model_in_regions, one call (SpecRegions)
    r_pc,               \* "idle" | "loop" | "returned" | "raised"
    r_args,             \* [publisher, model_id, regions] of the call
    r_i,                \* number of regions the for loop has probed
    r_buckets,          \* available_regions, needs_eula_regions, needs_perm_regions
    r_outcomes,         \* history: the status each probed region returned ("none" for None)
    r_result,           \* the value returned (None or a dict)
    \* ---- discover_models, the sweep (Spec)
    pc,                 \* "idle" | "collecting" | "returned" | "aborted"
    regions,            \* None (global endpoint) or the continent's region list
    patterns,           \* the candidate list, in enumeration order
    remote,             \* the remote state: candidate -> per-endpoint behaviour
    futures,            \* per submitted unit: its state and, once finished, its outcome
    completed,          \* the progress counter
    all_models,         \* the collected results
    calls,              \* history: per unit, the requests.post calls made for each endpoint
    \* ---- get_model_patterns, as discover_models calls it (SpecCatalog)
    c_pc,               \* "idle" | "start" | "loaded" | "aborted"
    c_use_static,       \* the --static flag
    c_run,              \* what subprocess.run of the listing command did
    c_patterns,         \* the candidate list discover_models goes on with
    \* ---- the worker pool of discover_models, units counted (SpecPool)
    w_pc,               \* "idle" | "submitting" | "collecting" | "returned"
    w_regions,          \* None (global endpoint) or the continent's region list
    w_total,            \* len(patterns)
    w_submitted,        \* units submitted to the executor so far
    w_queue,            \* work items waiting in the executor's queue
    w_threads,          \* worker threads the executor has started
    w_running,          \* units a worker thread is executing
    w_at,               \* per endpoint of a unit, in order: requests in flight to it
    w_done,             \* finished futures as_completed has not yielded yet
    w_completed,        \* the progress counter
    \* ---- gemini3pro-deepthink.py, main up to the payload (SpecPayload)
    g_pc,               \* "idle" | "parsed" | "prompted" | "keyed" | "built" | "answered" | "exited"
    g_args,             \* the parsed command line
    g_env,              \* the standard input and the environment of the process
    g_prompt_text,      \* prompt_text
    g_api_key,          \* api_key
    g_payload           \* payload

p_vars == <<p_pc, p_args, p_response, p_result>>
r_vars == <<r_pc, r_args, r_i, r_buckets, r_outcomes, r_result>>
s_vars == <<pc, regions, patterns, remote, futures, completed, all_models, calls>>
c_vars == <<c_pc, c_use_static, c_run, c_patterns>>
w_vars == <<w_pc, w_regions, w_total, w_submitted, w_queue, w_threads, w_running, w_at, w_done, w_completed>>
g_vars == <<g_pc, g_args, g_env, g_prompt_text, g_api_key, g_payload>>
vars == <<p_vars, r_vars, s_vars, c_vars, w_vars, g_vars>>

----------------------------------------------------------------------------
(* Python values *)

None == <<>>
Some(x) == <<x>>

\* The printable ASCII characters, code points 32..126, in order (the grave accent,
\* code point 96, is spelled out: no text of the model holds one).
Ascii == <<" ","!","\"","#","$","%","&","'","(",")","*","+",",","-",".","/","0","1","2","3","4","5","6","7","8","9",":",";","<","=",">","?","@","A","B","C","D","E","F","G","H","I","J","K","L","M","N","O","P","Q","R","S","T","U","V","W","X","Y","Z","[","\\","]","^","_","(grave)","a","b","c","d","e","f","g","h","i","j","k","l","m","n","o","p","q","r","s","t","u","v","w","x","y","z","{","|","}","~">>

\* The code point of each character a text of the model holds.
CodePoints ==
    [ch \in {Ascii[k] : k \in 1..Len(Ascii)} \cup {"\t", "\n", "\r"} |->
        CASE ch = "\t" -> 9
          [] ch = "\n" -> 10
          [] ch = "\r" -> 13
          [] OTHER -> 31 + (CHOOSE code \in 1..Len(Ascii) : Ascii[code] = ch)]

\* The code point of a character: what str comparison orders by.
ord(c) == CodePoints[c]

chr(n) == Ascii[n - 31]

\* str.lower(), character by character: A..Z go to a..z, the rest stays.
lower_char(c) == IF ord(c) >= 65 /\ ord(c) <= 90 THEN chr(ord(c) + 32) ELSE c

\* A faulty lower(): the text is left as it is.
lower_unchanged(s) == s

lower(s) == [i \in 1..Len(s) |-> lower_char(s[i])]

\* needle in haystack
contains(haystack, needle) ==
    \E i \in 0..(Len(haystack) - Len(needle)) :
        \A j \in 1..Len(needle) : haystack[i + j] = needle[j]

\* a < b for two str: the first differing code point decides, a proper prefix is smaller.
str_less(a, b) ==
    \E k \in 1..Len(b) :
        /\ \A j \in 1..(k - 1) : j <= Len(a) /\ a[j] = b[j]
        /\ k - 1 <= Len(a)
        /\ (k > Len(a) \/ ord(a[k]) < ord(b[k]))

----------------------------------------------------------------------------
(* Program constants *)

PUBLISHERS == <<<<"g","o","o","g","l","e">>, <<"a","n","t","h","r","o","p","i","c">>, <<"m","e","t","a">>, <<"m","i","s","t","r","a","l","-","a","i">>, <<"a","i","2","1">>>>

LLM_PATTERNS == <<<<"g","e","m","i","n","i">>, <<"c","l","a","u","d","e">>, <<"l","l","a","m","a">>, <<"m","i","s","t","r","a","l">>, <<"m","i","x","t","r","a","l">>, <<"c","o","d","e","s","t","r","a","l">>, <<"j","a","m","b","a">>>>

CONTINENT_REGIONS ==
    [us |-> <<"us-central1", "us-east1", "us-east4", "us-east5", "us-south1", "us-west1", "us-west4">>,
     europe |-> <<"europe-west1", "europe-west4", "europe-west9">>,
     asia |-> <<"asia-east1", "asia-east2", "asia-northeast1", "asia-northeast3", "asia-south1", "asia-southeast1">>]

\* argparse's choices for --continent
Continents == {"us", "europe", "asia"}

----------------------------------------------------------------------------
(* The remote API, as one requests.post sees it *)

HttpResponse(status_code, text) == [kind |-> "response", status_code |-> status_code, text |-> text]
TimeoutRaised == [kind |-> "timeout", status_code |-> 0, text |-> <<>>]
ExceptionRaised == [kind |-> "exception", status_code |-> 0, text |-> <<>>]

StatusCodes == {200, 400, 401, 403, 404, 429, 500}

Bodies ==
    { <<>>,
      <<"Y","o","u"," ","m","u","s","t"," ","a","c","c","e","p","t"," ","t","h","e"," ","E","U","L","A">>,
      <<"i","n","s","u","f","f","i","c","i","e","n","t"," ","p","e","r","m","i","s","s","i","o","n","s">>,
      <<"P","l","e","a","s","e"," ","a","c","c","e","p","t"," ","t","h","e"," ","T","e","r","m","s"," ","o","f"," ","S","e","r","v","i","c","e">>,
      <<"L","i","c","e","n","s","e"," ","A","G","R","E","E","M","E","N","T"," ","r","e","q","u","i","r","e","d">>,
      <<"P","e","r","m","i","s","s","i","o","n"," ","d","e","n","i","e","d"," ","o","n"," ","r","e","s","o","u","r","c","e">>,
      <<"l","o","n","g","-","t","e","r","m"," ","q","u","o","t","a"," ","e","x","c","e","e","d","e","d">>,
      <<"{","\"","e","r","r","o","r","\"",":"," ","{","\"","m","e","s","s","a","g","e","\"",":"," ","\"","P","u","b","l","i","s","h","e","r"," ","m","o","d","e","l"," ","n","o","t"," ","f","o","u","n","d","\"","}","}">> }

Responses ==
    {HttpResponse(s, b) : s \in StatusCodes, b \in Bodies} \cup {TimeoutRaised, ExceptionRaised}

\* The behaviour of one endpoint for one model, and what requests.post may do there.
RemoteKinds == {"serving", "eula_required", "forbidden", "missing", "failing"}

respond(kind) ==
    CASE kind = "serving" -> {HttpResponse(200, <<>>)}
      [] kind = "eula_required" -> {HttpResponse(403, <<"Y","o","u"," ","m","u","s","t"," ","a","c","c","e","p","t"," ","t","h","e"," ","E","U","L","A">>)}
      [] kind = "forbidden" -> {HttpResponse(403, <<"i","n","s","u","f","f","i","c","i","e","n","t"," ","p","e","r","m","i","s","s","i","o","n","s">>)}
      [] kind = "missing" -> {HttpResponse(404, <<>>), HttpResponse(500, <<>>), TimeoutRaised}
      [] kind = "failing" -> {ExceptionRaised}

\* One response of each kind.
ResponseSample == UNION {respond(kind) : kind \in RemoteKinds}

----------------------------------------------------------------------------
(* check_model_availability *)

Returned(value) == [raised |-> FALSE, value |-> value]
Raised == [raised |-> TRUE, value |-> None]

\* The dict a probe returns; "endpoint" is region if region else "global".
probe_dict(publisher, model_id, status, region, requires_eula) ==
    [publisher |-> publisher, model_id |-> model_id, status |-> status,
     endpoint |-> IF region # None THEN region[1] ELSE "global",
     requires_eula |-> requires_eula]

\* publisher not in ["google"]
not_google(publisher) == publisher # <<"g","o","o","g","l","e">>

has_eula_keyword(text) ==
    LET error_text == lower(text)
    IN  contains(error_text, <<"a","g","r","e","e","m","e","n","t">>) \/ contains(error_text, <<"e","u","l","a">>) \/ contains(error_text, <<"t","e","r","m","s">>)

\* A faulty on_response: a 404 is reported, with a status of its own.
on_response_reports_404(publisher, model_id, region, response) ==
    IF response.status_code = 200 THEN
        Some(probe_dict(publisher, model_id, "available", region, not_google(publisher)))
    ELSE IF response.status_code = 403 THEN
        IF has_eula_keyword(response.text) THEN
            Some(probe_dict(publisher, model_id, "needs_eula", region, TRUE))
        ELSE
            Some(probe_dict(publisher, model_id, "needs_permission", region, not_google(publisher)))
    ELSE IF response.status_code = 404 THEN
        Some(probe_dict(publisher, model_id, "not_found", region, not_google(publisher)))
    ELSE None

\* A faulty on_response: a status that is none of 200, 403, 404 counts as a refusal.
on_response_else_refused(publisher, model_id, region, response) ==
    IF response.status_code = 200 THEN
        Some(probe_dict(publisher, model_id, "available", region, not_google(publisher)))
    ELSE IF response.status_code = 403 THEN
        IF has_eula_keyword(response.text) THEN
            Some(probe_dict(publisher, model_id, "needs_eula", region, TRUE))
        ELSE
            Some(probe_dict(publisher, model_id, "needs_permission", region, not_google(publisher)))
    ELSE IF response.status_code = 404 THEN None
    ELSE Some(probe_dict(publisher, model_id, "needs_permission", region, not_google(publisher)))

\* The branches on response.status_code.
on_response(publisher, model_id, region, response) ==
    IF response.status_code = 200 THEN
        Some(probe_dict(publisher, model_id, "available", region, not_google(publisher)))
    ELSE IF response.status_code = 403 THEN
        IF has_eula_keyword(response.text) THEN
            Some(probe_dict(publisher, model_id, "needs_eula", region, TRUE))
        ELSE
            Some(probe_dict(publisher, model_id, "needs_permission", region, not_google(publisher)))
    ELSE IF response.status_code = 404 THEN None
    ELSE None

\* A faulty probe: a request that timed out is made a second time.
probe_calls_retried(response) == IF response.kind = "timeout" THEN 2 ELSE 1

\* The requests.post calls of one call of check_model_availability: the one of its try
\* block, whatever it does.
probe_calls(response) == 1

\* A faulty check_model_availability: a timeout is raised again to the caller.
check_model_availability_timeout_raised(publisher, model_id, region, response) ==
    IF response.kind = "timeout" THEN Raised
    ELSE IF response.kind = "exception" THEN Returned(None)
    ELSE Returned(on_response(publisher, model_id, region, response))

\* A faulty check_model_availability: no `except Exception` handler.
check_model_availability_uncaught(publisher, model_id, region, response) ==
    IF response.kind = "timeout" THEN Returned(None)
    ELSE IF response.kind = "exception" THEN Raised
    ELSE Returned(on_response(publisher, model_id, region, response))

\* The outcome of one call, given what requests.post did: the try block and its two handlers.
check_model_availability(publisher, model_id, region, response) ==
    IF response.kind = "timeout" THEN Returned(None)
    ELSE IF response.kind = "exception" THEN Returned(None)
    ELSE Returned(on_response(publisher, model_id, region, response))

----------------------------------------------------------------------------
(* check_model_in_regions *)

EmptyBuckets == [available_regions |-> <<>>, needs_eula_regions |-> <<>>, needs_perm_regions |-> <<>>]

\* A faulty loop body: a region that needs the EULA is appended to available_regions.
region_step_wrong_list(buckets, region, result) ==
    IF result # None THEN
        IF result[1].status = "available" THEN
            [buckets EXCEPT !.available_regions = Append(@, region)]
        ELSE IF result[1].status = "needs_eula" THEN
            [buckets EXCEPT !.available_regions = Append(@, region)]
        ELSE IF result[1].status = "needs_permission" THEN
            [buckets EXCEPT !.needs_perm_regions = Append(@, region)]
        ELSE buckets
    ELSE buckets

\* The body of the for loop, after the probe of `region` returned `result`.
region_step(buckets, region, result) ==
    IF result # None THEN
        IF result[1].status = "available" THEN
            [buckets EXCEPT !.available_regions = Append(@, region)]
        ELSE IF result[1].status = "needs_eula" THEN
            [buckets EXCEPT !.needs_eula_regions = Append(@, region)]
        ELSE IF result[1].status = "needs_permission" THEN
            [buckets EXCEPT !.needs_perm_regions = Append(@, region)]
        ELSE buckets
    ELSE buckets

\* A faulty reduction: needs_eula is tested before available.
reduce_regions_eula_first(publisher, model_id, buckets) ==
    IF buckets.available_regions # <<>> \/ buckets.needs_eula_regions # <<>> \/ buckets.needs_perm_regions # <<>> THEN
        LET status == IF buckets.needs_eula_regions # <<>> THEN "needs_eula"
                      ELSE IF buckets.available_regions # <<>> THEN "available"
                      ELSE "needs_permission"
            regions_list == IF buckets.needs_eula_regions # <<>> THEN buckets.needs_eula_regions
                            ELSE IF buckets.available_regions # <<>> THEN buckets.available_regions
                            ELSE buckets.needs_perm_regions
        IN  Some([publisher |-> publisher, model_id |-> model_id, status |-> status,
                  regions |-> regions_list, requires_eula |-> not_google(publisher)])
    ELSE None

\* A faulty reduction: requires_eula is set as the probe sets it, true for needs_eula.
reduce_regions_eula_flag(publisher, model_id, buckets) ==
    IF buckets.available_regions # <<>> \/ buckets.needs_eula_regions # <<>> \/ buckets.needs_perm_regions # <<>> THEN
        LET status == IF buckets.available_regions # <<>> THEN "available"
                      ELSE IF buckets.needs_eula_regions # <<>> THEN "needs_eula"
                      ELSE "needs_permission"
            regions_list == IF buckets.available_regions # <<>> THEN buckets.available_regions
                            ELSE IF buckets.needs_eula_regions # <<>> THEN buckets.needs_eula_regions
                            ELSE buckets.needs_perm_regions
        IN  Some([publisher |-> publisher, model_id |-> model_id, status |-> status,
                  regions |-> regions_list,
                  requires_eula |-> (status = "needs_eula" \/ not_google(publisher))])
    ELSE None

\* The code after the loop: the priority among the three lists, and the dict returned.
reduce_regions(publisher, model_id, buckets) ==
    IF buckets.available_regions # <<>> \/ buckets.needs_eula_regions # <<>> \/ buckets.needs_perm_regions # <<>> THEN
        LET status == IF buckets.available_regions # <<>> THEN "available"
                      ELSE IF buckets.needs_eula_regions # <<>> THEN "needs_eula"
                      ELSE "needs_permission"
            regions_list == IF buckets.available_regions # <<>> THEN buckets.available_regions
                            ELSE IF buckets.needs_eula_regions # <<>> THEN buckets.needs_eula_regions
                            ELSE buckets.needs_perm_regions
        IN  Some([publisher |-> publisher, model_id |-> model_id, status |-> status,
                  regions |-> regions_list, requires_eula |-> not_google(publisher)])
    ELSE None

\* One iteration of the loop, from the state `at` of the call: the probe of `region`,
\* in which requests.post does `response`, and the update of the three lists.  An
\* exception of the probe leaves the function at once.
loop_iteration(publisher, model_id, at, region, response) ==
    IF at.raised THEN at
    ELSE LET probe == check_model_availability(publisher, model_id, Some(region), response)
             made == Append(at.calls, probe_calls(response))
         IN  IF probe.raised THEN [raised |-> TRUE, buckets |-> at.buckets, calls |-> made]
             ELSE [raised |-> FALSE, buckets |-> region_step(at.buckets, region, probe.value),
                   calls |-> made]

\* The loop from its i-th iteration on, then the code after it: every outcome the call
\* may have when requests.post may do any of may_respond[i] in the probe of region_list[i].
RECURSIVE regions_loop(_, _, _, _, _, _)
regions_loop(publisher, model_id, region_list, may_respond, i, reached) ==
    IF i > Len(region_list) THEN
        { [raised |-> at.raised,
           value |-> IF at.raised THEN None ELSE reduce_regions(publisher, model_id, at.buckets),
           calls |-> at.calls]
          : at \in reached }
    ELSE regions_loop(publisher, model_id, region_list, may_respond, i + 1,
                      { loop_iteration(publisher, model_id, at, region_list[i], response)
                        : at \in reached, response \in may_respond[i] })

check_model_in_regions(publisher, model_id, region_list, may_respond) ==
    regions_loop(publisher, model_id, region_list, may_respond, 1,
                 {[raised |-> FALSE, buckets |-> EmptyBuckets, calls |-> <<>>]})

----------------------------------------------------------------------------
(* Inputs *)

\* Candidates of the static table the model sweeps: two of one publisher, one a proper
\* prefix of the other, and one of the first-party publisher.
CandidateUniverse ==
    { [publisher |-> <<"a","n","t","h","r","o","p","i","c">>, model_id |-> <<"c","l","a","u","d","e","-","o","p","u","s","-","4">>],
      [publisher |-> <<"a","n","t","h","r","o","p","i","c">>, model_id |-> <<"c","l","a","u","d","e","-","o","p","u","s","-","4","-","5">>],
      [publisher |-> <<"g","o","o","g","l","e">>, model_id |-> <<"g","e","m","i","n","i","-","2",".","5","-","p","r","o">>] }

Range(s) == {s[i] : i \in 1..Len(s)}

----------------------------------------------------------------------------
(* The idle values of each part *)

IdleProbe == p_pc = "idle" /\ p_args = None /\ p_response = None /\ p_result = None
IdleRegions ==
    r_pc = "idle" /\ r_args = None /\ r_i = 0 /\ r_buckets = EmptyBuckets /\ r_outcomes = <<>> /\ r_result = None
IdleSweep ==
    pc = "idle" /\ regions = None /\ patterns = <<>> /\ remote = <<>> /\ futures = <<>>
    /\ completed = 0 /\ all_models = <<>> /\ calls = <<>>
IdleCatalog == c_pc = "idle" /\ c_use_static = FALSE /\ c_run = None /\ c_patterns = <<>>
IdlePool ==
    w_pc = "idle" /\ w_regions = None /\ w_total = 0 /\ w_submitted = 0 /\ w_queue = 0
    /\ w_threads = 0 /\ w_running = 0 /\ w_at = <<>> /\ w_done = 0 /\ w_completed = 0
IdlePayload ==
    /\ g_pc = "idle" /\ g_args = None /\ g_env = None
    /\ g_prompt_text = None /\ g_api_key = None /\ g_payload = None

----------------------------------------------------------------------------
(* SpecProbe: one call of check_model_availability *)

InitProbe ==
    /\ p_pc = "call"
    /\ p_args \in [publisher : Range(PUBLISHERS), model_id : {<<"m","o","d","e","l","-","a">>},
                   region : {None, Some("us-central1")}]
    /\ p_response \in Responses
    /\ p_result = None
    /\ IdleRegions /\ IdleSweep /\ IdleCatalog /\ IdlePool /\ IdlePayload

Probe ==
    /\ p_pc = "call"
    /\ LET outcome == check_model_availability(p_args.publisher, p_args.model_id, p_args.region, p_response)
       IN  /\ p_pc' = IF outcome.raised THEN "raised" ELSE "returned"
           /\ p_result' = outcome.value
    /\ UNCHANGED <<p_args, p_response, r_vars, s_vars, c_vars, w_vars, g_vars>>

NextProbe == Probe

SpecProbe == InitProbe /\ [][NextProbe]_vars

----------------------------------------------------------------------------
(* SpecRegions: one call of check_model_in_regions, a probe at a time *)

status_of(result) == IF result = None THEN "none" ELSE result[1].status

InitRegions ==
    /\ r_pc = "loop"
    /\ \E candidate \in CandidateUniverse, continent \in Continents :
          r_args = [publisher |-> candidate.publisher, model_id |-> candidate.model_id,
                    regions |-> CONTINENT_REGIONS[continent]]
    /\ r_i = 0
    /\ r_buckets = EmptyBuckets
    /\ r_outcomes = <<>>
    /\ r_result = None
    /\ IdleProbe /\ IdleSweep /\ IdleCatalog /\ IdlePool /\ IdlePayload

\* One iteration of the for loop: the probe of the next region and the bucket update.
ProbeRegion ==
    /\ r_pc = "loop"
    /\ r_i < Len(r_args.regions)
    /\ \E response \in ResponseSample :
          LET region == r_args.regions[r_i + 1]
              probe == check_model_availability(r_args.publisher, r_args.model_id, Some(region), response)
          IN  IF probe.raised
              THEN r_pc' = "raised" /\ UNCHANGED <<r_i, r_buckets, r_outcomes>>
              ELSE /\ r_buckets' = region_step(r_buckets, region, probe.value)
                   /\ r_outcomes' = Append(r_outcomes, status_of(probe.value))
                   /\ r_i' = r_i + 1
                   /\ r_pc' = "loop"
    /\ UNCHANGED <<r_args, r_result, p_vars, s_vars, c_vars, w_vars, g_vars>>

\* The loop is over: reduce the three lists and return.
ReturnRegions ==
    /\ r_pc = "loop"
    /\ r_i = Len(r_args.regions)
    /\ r_result' = reduce_regions(r_args.publisher, r_args.model_id, r_buckets)
    /\ r_pc' = "returned"
    /\ UNCHANGED <<r_args, r_i, r_buckets, r_outcomes, p_vars, s_vars, c_vars, w_vars, g_vars>>

NextRegions == ProbeRegion \/ ReturnRegions

SpecRegions == InitRegions /\ [][NextRegions]_vars

----------------------------------------------------------------------------
(* The catalog source: fetch_model_garden_models, get_model_patterns *)

Whitespace == {" ", "\t", "\n", "\r"}

\* str.strip()
RECURSIVE lstrip(_)
lstrip(text) == IF text # <<>> /\ Head(text) \in Whitespace THEN lstrip(Tail(text)) ELSE text

RECURSIVE rstrip(_)
rstrip(text) ==
    IF text # <<>> /\ text[Len(text)] \in Whitespace THEN rstrip(SubSeq(text, 1, Len(text) - 1)) ELSE text

strip(text) == rstrip(lstrip(text))

\* The index of the first `ch` of text at or after `from`, Len(text) + 1 when there is none.
RECURSIVE find_char(_, _, _)
find_char(text, ch, from) ==
    IF from > Len(text) THEN Len(text) + 1
    ELSE IF text[from] = ch THEN from
    ELSE find_char(text, ch, from + 1)

\* str.split("\n")
RECURSIVE split_lines(_)
split_lines(text) ==
    LET at == find_char(text, "\n", 1)
    IN  IF at > Len(text) THEN <<text>>
        ELSE <<SubSeq(text, 1, at - 1)>> \o split_lines(SubSeq(text, at + 1, Len(text)))

starts_with(text, prefix, from) ==
    /\ from + Len(prefix) - 1 <= Len(text)
    /\ \A k \in 1..Len(prefix) : text[from + k - 1] = prefix[k]

\* re.match(r"publishers/([^/]+)/models/(.+)", line): None, or the two groups.  The first
\* group is the run of characters up to the next "/", the second the rest of the line.
match_resource_name(line) ==
    LET head == <<"p","u","b","l","i","s","h","e","r","s","/">>
        mid == <<"/","m","o","d","e","l","s","/">>
        slash == find_char(line, "/", Len(head) + 1)
    IN  IF /\ starts_with(line, head, 1)
           /\ slash > Len(head) + 1
           /\ starts_with(line, mid, slash)
           /\ slash + Len(mid) <= Len(line)
        THEN Some([publisher |-> SubSeq(line, Len(head) + 1, slash - 1),
                   model_id |-> SubSeq(line, slash + Len(mid), Len(line))])
        ELSE None

\* llm_regex.search(model_id), the patterns joined by "|" and compiled with re.IGNORECASE
llm_regex_search(model_id) ==
    \E k \in 1..Len(LLM_PATTERNS) : contains(lower(model_id), LLM_PATTERNS[k])

\* The for loop over the lines of the listing: the models kept, in order.
RECURSIVE listed_models(_)
listed_models(lines) ==
    IF lines = <<>> THEN <<>>
    ELSE LET line == Head(lines)
             match == match_resource_name(line)
             keep == /\ line # <<>>
                     /\ match # None
                     /\ match[1].publisher \in Range(PUBLISHERS)
                     /\ llm_regex_search(match[1].model_id)
         IN  (IF keep THEN <<match[1]>> ELSE <<>>) \o listed_models(Tail(lines))

\* What subprocess.run of the gcloud listing did: it returned (a return code and the
\* standard output), or it raised.
Completed(returncode, stdout) == [kind |-> "completed", returncode |-> returncode, stdout |-> stdout]
RunRaised(exception) == [kind |-> exception, returncode |-> 0, stdout |-> <<>>]

\* fetch_model_garden_models: the list returned, or the exception that leaves it.
fetch_model_garden_models(run) ==
    IF run.kind = "completed" THEN
        IF run.returncode # 0 THEN Returned(<<>>)
        ELSE Returned(listed_models(split_lines(strip(run.stdout))))
    ELSE IF run.kind = "TimeoutExpired" THEN Returned(<<>>)
    ELSE IF run.kind = "FileNotFoundError" THEN Returned(<<>>)
    ELSE Raised

\* A faulty substitution: the identifier is left as it is.
base_model_uncut(model_id) == model_id

\* re.sub(r"@.*$", "", model_id)
base_model_of(model_id) == SubSeq(model_id, 1, find_char(model_id, "@", 1) - 1)

mistral_specific_models == <<<<"m","i","s","t","r","a","l","-","m","e","d","i","u","m","-","3">>, <<"m","i","s","t","r","a","l","-","s","m","a","l","l","-","2","5","0","3">>, <<"m","i","s","t","r","a","l","-","o","c","r">>, <<"m","i","s","t","r","a","l","-","l","a","r","g","e","-","2","4","0","7">>, <<"c","o","d","e","s","t","r","a","l","-","2">>, <<"c","o","d","e","s","t","r","a","l","-","2","4","0","5">>>>

\* The set `expanded` of the dynamic branch.
expanded_models(models) ==
    Range(models)
    \cup {[publisher |-> m.publisher, model_id |-> base_model_of(m.model_id)]
          : m \in {x \in Range(models) : base_model_of(x.model_id) # x.model_id}}
    \cup {m \in Range(models) : m.publisher = <<"a","n","t","h","r","o","p","i","c">>}
    \cup {[publisher |-> <<"m","i","s","t","r","a","l","-","a","i">>, model_id |-> mistral_specific_models[k]]
          : k \in 1..Len(mistral_specific_models)}

\* The static fallback list, in the order it is built.
static_patterns ==
    << [publisher |-> <<"g","o","o","g","l","e">>, model_id |-> <<"g","e","m","i","n","i","-","3","-","p","r","o","-","p","r","e","v","i","e","w">>],
       [publisher |-> <<"g","o","o","g","l","e">>, model_id |-> <<"g","e","m","i","n","i","-","3","-","f","l","a","s","h","-","p","r","e","v","i","e","w">>],
       [publisher |-> <<"g","o","o","g","l","e">>, model_id |-> <<"g","e","m","i","n","i","-","2",".","5","-","p","r","o">>],
       [publisher |-> <<"g","o","o","g","l","e">>, model_id |-> <<"g","e","m","i","n","i","-","2",".","5","-","f","l","a","s","h">>],
       [publisher |-> <<"g","o","o","g","l","e">>, model_id |-> <<"g","e","m","i","n","i","-","2",".","5","-","f","l","a","s","h","-","l","i","t","e">>],
       [publisher |-> <<"g","o","o","g","l","e">>, model_id |-> <<"g","e","m","i","n","i","-","2",".","0","-","f","l","a","s","h">>],
       [publisher |-> <<"g","o","o","g","l","e">>, model_id |-> <<"g","e","m","i","n","i","-","2",".","0","-","f","l","a","s","h","-","0","0","1">>],
       [publisher |-> <<"g","o","o","g","l","e">>, model_id |-> <<"g","e","m","i","n","i","-","2",".","0","-","f","l","a","s","h","-","l","i","t","e">>],
       [publisher |-> <<"a","n","t","h","r","o","p","i","c">>, model_id |-> <<"c","l","a","u","d","e","-","o","p","u","s","-","4","-","5">>],
       [publisher |-> <<"a","n","t","h","r","o","p","i","c">>, model_id |-> <<"c","l","a","u","d","e","-","s","o","n","n","e","t","-","4","-","5">>],
       [publisher |-> <<"a","n","t","h","r","o","p","i","c">>, model_id |-> <<"c","l","a","u","d","e","-","h","a","i","k","u","-","4","-","5">>],
       [publisher |-> <<"a","n","t","h","r","o","p","i","c">>, model_id |-> <<"c","l","a","u","d","e","-","o","p","u","s","-","4">>],
       [publisher |-> <<"a","n","t","h","r","o","p","i","c">>, model_id |-> <<"c","l","a","u","d","e","-","s","o","n","n","e","t","-","4">>],
       [publisher |-> <<"a","n","t","h","r","o","p","i","c">>, model_id |-> <<"c","l","a","u","d","e","-","3","-","7","-","s","o","n","n","e","t">>],
       [publisher |-> <<"a","n","t","h","r","o","p","i","c">>, model_id |-> <<"c","l","a","u","d","e","-","3","-","5","-","s","o","n","n","e","t">>],
       [publisher |-> <<"a","n","t","h","r","o","p","i","c">>, model_id |-> <<"c","l","a","u","d","e","-","3","-","5","-","h","a","i","k","u">>],
       [publisher |-> <<"a","n","t","h","r","o","p","i","c">>, model_id |-> <<"c","l","a","u","d","e","-","3","-","h","a","i","k","u">>],
       [publisher |-> <<"m","e","t","a">>, model_id |-> <<"l","l","a","m","a","-","4","-","m","a","v","e","r","i","c","k","-","1","7","b","-","1","2","8","e","-","i","n","s","t","r","u","c","t","-","m","a","a","s">>],
       [publisher |-> <<"m","e","t","a">>, model_id |-> <<"l","l","a","m","a","-","3",".","3","-","7","0","b","-","i","n","s","t","r","u","c","t","-","m","a","a","s">>],
       [publisher |-> <<"m","e","t","a">>, model_id |-> <<"l","l","a","m","a","-","3",".","2","-","9","0","b","-","v","i","s","i","o","n","-","i","n","s","t","r","u","c","t","-","m","a","a","s">>],
       [publisher |-> <<"m","e","t","a">>, model_id |-> <<"l","l","a","m","a","-","3",".","1","-","4","0","5","b","-","i","n","s","t","r","u","c","t","-","m","a","a","s">>],
       [publisher |-> <<"m","i","s","t","r","a","l","-","a","i">>, model_id |-> <<"m","i","s","t","r","a","l","-","m","e","d","i","u","m","-","3">>],
       [publisher |-> <<"m","i","s","t","r","a","l","-","a","i">>, model_id |-> <<"m","i","s","t","r","a","l","-","s","m","a","l","l","-","2","5","0","3">>],
       [publisher |-> <<"m","i","s","t","r","a","l","-","a","i">>, model_id |-> <<"m","i","s","t","r","a","l","-","o","c","r">>],
       [publisher |-> <<"m","i","s","t","r","a","l","-","a","i">>, model_id |-> <<"m","i","s","t","r","a","l","-","l","a","r","g","e","-","2","4","0","7">>],
       [publisher |-> <<"m","i","s","t","r","a","l","-","a","i">>, model_id |-> <<"c","o","d","e","s","t","r","a","l","-","2">>],
       [publisher |-> <<"m","i","s","t","r","a","l","-","a","i">>, model_id |-> <<"c","o","d","e","s","t","r","a","l","-","2","4","0","5">>],
       [publisher |-> <<"a","i","2","1">>, model_id |-> <<"j","a","m","b","a","-","l","a","r","g","e","-","1",".","6">>] >>

\* An enumeration of a finite set, and the lists list(a_set) may give.  The order of a
\* set of str tuples changes from run to run; the lists drawn here are the rotations of
\* one enumeration and of its reverse.
RECURSIVE some_enumeration(_)
some_enumeration(a_set) ==
    IF a_set = {} THEN <<>>
    ELSE LET x == CHOOSE y \in a_set : TRUE IN <<x>> \o some_enumeration(a_set \ {x})

rotate(list, k) == [i \in 1..Len(list) |-> list[((i + k - 1) % Len(list)) + 1]]

reversed(list) == [i \in 1..Len(list) |-> list[Len(list) + 1 - i]]

list_of_set(a_set) ==
    LET one == some_enumeration(a_set)
    IN  {rotate(one, k) : k \in 0..(Len(one) - 1)} \cup {rotate(reversed(one), k) : k \in 0..(Len(one) - 1)}

\* get_model_patterns(use_dynamic), subprocess.run doing `run` if it is called: the
\* lists it may return, or the exception that leaves it.
get_model_patterns(use_dynamic, run) ==
    IF use_dynamic THEN
        LET fetched == fetch_model_garden_models(run)
        IN  IF fetched.raised THEN {Raised}
            ELSE IF fetched.value # <<>> THEN {Returned(l) : l \in list_of_set(expanded_models(fetched.value))}
            ELSE {Returned(static_patterns)}
    ELSE {Returned(static_patterns)}

----------------------------------------------------------------------------
(* SpecCatalog: discover_models up to the candidate list *)

MaxLines == 2

\* Lines the listing command may print.
ListingLines ==
    { <<"p","u","b","l","i","s","h","e","r","s","/","g","o","o","g","l","e","/","m","o","d","e","l","s","/","g","e","m","i","n","i","-","2",".","5","-","p","r","o">>,
      <<"p","u","b","l","i","s","h","e","r","s","/","a","n","t","h","r","o","p","i","c","/","m","o","d","e","l","s","/","c","l","a","u","d","e","-","o","p","u","s","-","4","@","2","0","2","5","0","5","1","4">>,
      <<"p","u","b","l","i","s","h","e","r","s","/","m","e","t","a","/","m","o","d","e","l","s","/","L","l","a","m","a","-","3",".","3","-","7","0","B","-","i","n","s","t","r","u","c","t">>,
      <<"p","u","b","l","i","s","h","e","r","s","/","m","i","s","t","r","a","l","-","a","i","/","m","o","d","e","l","s","/","m","i","s","t","r","a","l","-","o","c","r">>,
      <<"p","u","b","l","i","s","h","e","r","s","/","g","o","o","g","l","e","/","m","o","d","e","l","s","/","i","m","a","g","e","n","-","3",".","0","-","g","e","n","e","r","a","t","e">>,
      <<"p","u","b","l","i","s","h","e","r","s","/","n","v","i","d","i","a","/","m","o","d","e","l","s","/","l","l","a","m","a","-","3",".","1","-","n","e","m","o","t","r","o","n">>,
      <<"L","i","s","t","e","d"," ","0"," ","i","t","e","m","s",".">>,
      <<>> }

RECURSIVE join_lines(_)
join_lines(lines) == IF lines = <<>> THEN <<>> ELSE Head(lines) \o <<"\n">> \o join_lines(Tail(lines))

Stdouts == {join_lines(lines) : lines \in UNION {[1..n -> ListingLines] : n \in 0..MaxLines}}

Runs ==
    {Completed(returncode, stdout) : returncode \in {0, 1}, stdout \in Stdouts}
    \cup {RunRaised("TimeoutExpired"), RunRaised("FileNotFoundError"), RunRaised("PermissionError")}

InitCatalog ==
    /\ c_pc = "start"
    /\ c_use_static \in BOOLEAN
    /\ c_run \in Runs
    /\ c_patterns = <<>>
    /\ IdleProbe /\ IdleRegions /\ IdleSweep /\ IdlePool /\ IdlePayload

\* discover_models from `use_dynamic = not use_static` to the candidate list it scans.
LoadPatterns ==
    /\ c_pc = "start"
    /\ \E got \in get_model_patterns(~c_use_static, c_run) :
          IF got.raised
          THEN c_pc' = "aborted" /\ UNCHANGED c_patterns
          ELSE /\ c_pc' = "loaded"
               /\ c_patterns' = IF got.value = <<>> THEN static_patterns ELSE got.value
    /\ UNCHANGED <<c_use_static, c_run, p_vars, r_vars, s_vars, w_vars, g_vars>>

NextCatalog == LoadPatterns

SpecCatalog == InitCatalog /\ [][NextCatalog]_vars

\* get_model_patterns returns no candidate twice.
PatternsAreDistinct ==
    \A i, j \in 1..Len(c_patterns) : i # j => c_patterns[i] # c_patterns[j]

----------------------------------------------------------------------------
(* Spec: the sweep of discover_models *)

MaxCandidates == 2

\* The candidate lists swept: every enumeration of up to MaxCandidates candidates, none
\* twice (get_model_patterns returns no candidate twice: PatternsAreDistinct).
CandidateLists ==
    UNION { {l \in [1..n -> CandidateUniverse] : \A i, j \in 1..n : i # j => l[i] # l[j]}
            : n \in 1..MaxCandidates }

\* The remote states of a global sweep of n candidates: the global endpoint behaves in
\* any way for each.
GlobalRemoteStates(n) == [1..n -> [1..1 -> RemoteKinds]]

\* The remote states of a regional sweep of n candidates over m regions: every region is
\* "missing" for every candidate, but for at most two (candidate, region) pairs, which
\* behave in any other way.
RegionalRemoteStates(n, m) ==
    LET pairs == (1..n) \X (1..m)
    IN  UNION { { [i \in 1..n |-> [r \in 1..m |-> IF <<i, r>> \in hits THEN f[<<i, r>>] ELSE "missing"]]
                  : f \in [hits -> RemoteKinds \ {"missing"}] }
                : hits \in {h \in SUBSET pairs : Cardinality(h) <= 2} }

\* A faulty choice of pool: the sizes of the two branches exchanged.
pool_size_exchanged(region_list) == IF region_list # None THEN 20 ELSE 10

\* ThreadPoolExecutor(max_workers=...) of the branch `if regions:` and of its else.
pool_size(region_list) == IF region_list # None THEN 10 ELSE 20

max_workers == pool_size(regions)

\* What the unit of work submitted for patterns[i] may end with, the remote being as it
\* is: its result or exception, and the requests.post calls it made, per endpoint.
unit_outcomes(i) ==
    IF regions # None THEN
        check_model_in_regions(patterns[i].publisher, patterns[i].model_id, regions[1],
                               [r \in 1..Len(regions[1]) |-> respond(remote[i][r])])
    ELSE
        { LET probe == check_model_availability(patterns[i].publisher, patterns[i].model_id, None, response)
          IN  [raised |-> probe.raised, value |-> probe.value, calls |-> <<probe_calls(response)>>]
          : response \in respond(remote[i][1]) }

\* x["publisher"], x["model_id"] as a tuple, compared as Python compares tuples of str.
key_less(x, y) ==
    \/ str_less(x.publisher, y.publisher)
    \/ x.publisher = y.publisher /\ str_less(x.model_id, y.model_id)

\* A faulty sort key: the publisher alone.
RECURSIVE insert_by_publisher(_, _)
insert_by_publisher(sorted, x) ==
    IF sorted = <<>> THEN <<x>>
    ELSE IF str_less(x.publisher, Head(sorted).publisher) THEN <<x>> \o sorted
    ELSE <<Head(sorted)>> \o insert_by_publisher(Tail(sorted), x)

\* list.sort(key=...): a stable sort, here by insertion from the left.
RECURSIVE insert_by_key(_, _)
insert_by_key(sorted, x) ==
    IF sorted = <<>> THEN <<x>>
    ELSE IF key_less(x, Head(sorted)) THEN <<x>> \o sorted
    ELSE <<Head(sorted)>> \o insert_by_key(Tail(sorted), x)

\* A faulty discover_models: the list is returned as collected.
sort_skipped(models) == models

RECURSIVE sort_by_key(_)
sort_by_key(models) ==
    IF models = <<>> THEN <<>>
    ELSE insert_by_key(sort_by_key(SubSeq(models, 1, Len(models) - 1)), models[Len(models)])

InitSweep ==
    /\ pc = "collecting"
    /\ regions \in {None, Some(CONTINENT_REGIONS["europe"])}
    /\ patterns \in CandidateLists
    /\ remote \in IF regions = None THEN GlobalRemoteStates(Len(patterns))
                  ELSE RegionalRemoteStates(Len(patterns), Len(regions[1]))
    /\ futures = [i \in 1..Len(patterns) |-> [state |-> "pending", outcome |-> Returned(None)]]
    /\ completed = 0
    /\ all_models = <<>>
    /\ calls = [i \in 1..Len(patterns) |-> <<>>]
    /\ IdleProbe /\ IdleRegions /\ IdleCatalog /\ IdlePool /\ IdlePayload

\* A worker thread takes the next work item off the pool's queue.
Start(i) ==
    /\ futures[i].state = "pending"
    /\ \A j \in 1..(i - 1) : futures[j].state # "pending"
    /\ Cardinality({j \in 1..Len(futures) : futures[j].state = "running"}) < max_workers
    /\ futures' = [futures EXCEPT ![i].state = "running"]
    /\ UNCHANGED <<pc, regions, patterns, remote, completed, all_models, calls, p_vars, r_vars, c_vars, w_vars, g_vars>>

\* The unit of work runs to its end: the future holds its result, or its exception.
Finish(i) ==
    /\ futures[i].state = "running"
    /\ \E outcome \in unit_outcomes(i) :
          /\ futures' = [futures EXCEPT ![i] = [state |-> "finished",
                                                outcome |-> [raised |-> outcome.raised, value |-> outcome.value]]]
          /\ calls' = [calls EXCEPT ![i] = outcome.calls]
    /\ UNCHANGED <<pc, regions, patterns, remote, completed, all_models, p_vars, r_vars, c_vars, w_vars, g_vars>>

\* A faulty collector: a result is appended once more when another is already held.
Collect_duplicating(i) ==
    /\ pc = "collecting"
    /\ futures[i].state = "finished"
    /\ completed' = completed + 1
    /\ futures' = [futures EXCEPT ![i].state = "yielded"]
    /\ IF futures[i].outcome.raised
       THEN pc' = "aborted" /\ UNCHANGED all_models
       ELSE /\ pc' = pc
            /\ all_models' = IF futures[i].outcome.value # None
                             THEN IF all_models # <<>>
                                  THEN all_models \o <<futures[i].outcome.value[1], futures[i].outcome.value[1]>>
                                  ELSE Append(all_models, futures[i].outcome.value[1])
                             ELSE all_models
    /\ UNCHANGED <<regions, patterns, remote, calls, p_vars, r_vars, c_vars, w_vars, g_vars>>

\* One iteration of `for future in as_completed(futures)`.
Collect(i) ==
    /\ pc = "collecting"
    /\ futures[i].state = "finished"
    /\ completed' = completed + 1
    /\ futures' = [futures EXCEPT ![i].state = "yielded"]
    /\ IF futures[i].outcome.raised
       THEN pc' = "aborted" /\ UNCHANGED all_models
       ELSE /\ pc' = pc
            /\ all_models' = IF futures[i].outcome.value # None
                             THEN Append(all_models, futures[i].outcome.value[1])
                             ELSE all_models
    /\ UNCHANGED <<regions, patterns, remote, calls, p_vars, r_vars, c_vars, w_vars, g_vars>>

\* A faulty discover_models: the loop is left at the first future yielded.
SortAndReturn_early ==
    /\ pc = "collecting"
    /\ \E i \in 1..Len(futures) : futures[i].state = "yielded"
    /\ all_models' = sort_by_key(all_models)
    /\ pc' = "returned"
    /\ UNCHANGED <<regions, patterns, remote, futures, completed, calls, p_vars, r_vars, c_vars, w_vars, g_vars>>

\* The loop is over: sort, print, return all_models.
SortAndReturn ==
    /\ pc = "collecting"
    /\ \A i \in 1..Len(futures) : futures[i].state = "yielded"
    /\ all_models' = sort_by_key(all_models)
    /\ pc' = "returned"
    /\ UNCHANGED <<regions, patterns, remote, futures, completed, calls, p_vars, r_vars, c_vars, w_vars, g_vars>>

Next ==
    \/ \E i \in 1..Len(futures) : Start(i)
    \/ \E i \in 1..Len(futures) : Finish(i)
    \/ \E i \in 1..Len(futures) : Collect(i)
    \/ SortAndReturn

Spec == InitSweep /\ [][Next]_vars

\* The sweep when every request ends and the threads are scheduled: a unit that can start
\* starts, a running unit finishes, a finished future is yielded, the loop exits.
SpecFair ==
    /\ InitSweep
    /\ [][Next]_vars
    /\ WF_vars(\E i \in 1..Len(futures) : Start(i))
    /\ WF_vars(\E i \in 1..Len(futures) : Finish(i))
    /\ WF_vars(\E i \in 1..Len(futures) : Collect(i))
    /\ WF_vars(SortAndReturn)

----------------------------------------------------------------------------
(* SpecPool: the executor of discover_models, its units counted *)

MaxUnits == 22

\* The requests one unit makes, in order: one per region, or the one to the global endpoint.
endpoints_of(region_list) == IF region_list # None THEN Len(region_list[1]) ELSE 1

RECURSIVE sum(_)
sum(counts) == IF counts = <<>> THEN 0 ELSE Head(counts) + sum(Tail(counts))

\* requests.post calls that have not returned yet.
in_flight == sum(w_at)

InitPool ==
    /\ w_pc = "submitting"
    /\ w_regions \in {None, Some(CONTINENT_REGIONS["europe"])}
    /\ w_total \in 1..MaxUnits
    /\ w_submitted = 0
    /\ w_queue = 0
    /\ w_threads = 0
    /\ w_running = 0
    /\ w_at = [r \in 1..endpoints_of(w_regions) |-> 0]
    /\ w_done = 0
    /\ w_completed = 0
    /\ IdleProbe /\ IdleRegions /\ IdleSweep /\ IdleCatalog /\ IdlePayload

\* executor.submit(...) for the next pattern: the work item is queued, and a thread is
\* started for it if none is idle and the pool is not full.
Submit ==
    /\ w_pc = "submitting"
    /\ w_submitted' = w_submitted + 1
    /\ w_queue' = w_queue + 1
    /\ w_threads' = IF w_running = w_threads /\ w_threads < pool_size(w_regions)
                    THEN w_threads + 1 ELSE w_threads
    /\ w_pc' = IF w_submitted + 1 = w_total THEN "collecting" ELSE "submitting"
    /\ UNCHANGED <<w_regions, w_total, w_running, w_at, w_done, w_completed,
                   p_vars, r_vars, s_vars, c_vars, g_vars>>

\* An idle worker thread takes a work item and runs the unit up to its first requests.post.
Take ==
    /\ w_queue > 0
    /\ w_running < w_threads
    /\ w_queue' = w_queue - 1
    /\ w_running' = w_running + 1
    /\ w_at' = [w_at EXCEPT ![1] = @ + 1]
    /\ UNCHANGED <<w_pc, w_regions, w_total, w_submitted, w_threads, w_done, w_completed,
                   p_vars, r_vars, s_vars, c_vars, g_vars>>

\* requests.post to the r-th endpoint of a unit ends (a response, a timeout, an
\* exception): the unit goes on to its next region, or returns and its future is finished.
ProbeReturns(r) ==
    /\ w_at[r] > 0
    /\ IF r < Len(w_at)
       THEN /\ w_at' = [w_at EXCEPT ![r] = @ - 1, ![r + 1] = @ + 1]
            /\ UNCHANGED <<w_running, w_done>>
       ELSE /\ w_at' = [w_at EXCEPT ![r] = @ - 1]
            /\ w_running' = w_running - 1
            /\ w_done' = w_done + 1
    /\ UNCHANGED <<w_pc, w_regions, w_total, w_submitted, w_queue, w_threads, w_completed,
                   p_vars, r_vars, s_vars, c_vars, g_vars>>

\* One iteration of `for future in as_completed(futures)`.
PoolCollect ==
    /\ w_pc = "collecting"
    /\ w_done > 0
    /\ w_done' = w_done - 1
    /\ w_completed' = w_completed + 1
    /\ UNCHANGED <<w_pc, w_regions, w_total, w_submitted, w_queue, w_threads, w_running, w_at,
                   p_vars, r_vars, s_vars, c_vars, g_vars>>

\* as_completed is exhausted and the executor shut down: discover_models goes on to return.
PoolReturn ==
    /\ w_pc = "collecting"
    /\ w_completed = w_total
    /\ w_pc' = "returned"
    /\ UNCHANGED <<w_regions, w_total, w_submitted, w_queue, w_threads, w_running, w_at,
                   w_done, w_completed, p_vars, r_vars, s_vars, c_vars, g_vars>>

NextPool ==
    \/ Submit
    \/ Take
    \/ \E r \in 1..Len(w_at) : ProbeReturns(r)
    \/ PoolCollect
    \/ PoolReturn

SpecPool == InitPool /\ [][NextPool]_vars

----------------------------------------------------------------------------
(* SpecPayload: main of gemini3pro-deepthink.py, from the parsed command line to the request *)

DEFAULT_TOKENS == 65536

MaxBudget == 2

\* The values of -t/--thinking-level argparse accepts.
ThinkingLevels == {"low", "medium", "high"}

\* What parse_args may return, as far as main reads it up to the request.
ParsedArgs ==
    [ prompt : {None, Some(<<>>), Some(<<"w","h","y","?">>)},
      stdin : BOOLEAN,
      api_key : {None, Some(<<"1","2","3","4">>), Some(<<"k","-","1">>)},
      max_tokens : {DEFAULT_TOKENS, 1},
      thinking_level : ThinkingLevels,
      thinking_budget : (0 - MaxBudget)..MaxBudget,
      no_thoughts : BOOLEAN,
      no_search : BOOLEAN ]

\* The standard input (nothing to read: a terminal) and GEMINI_API_KEY.
Environments ==
    [ stdin_text : {None, Some(<<" ","h","o","w","?"," ">>)},
      GEMINI_API_KEY : {None, Some(<<"k","-","2">>)} ]

\* `not x` of an Optional[str]: None and the empty string.
falsy(x) == x = None \/ x[1] = <<>>

\* Step 1 of main: the prompt of -p, or the standard input read and stripped.
prompt_text_of(args, env) ==
    IF args.stdin /\ env.stdin_text # None THEN Some(strip(env.stdin_text[1])) ELSE args.prompt

\* get_api_key up to its test: arg_key or os.environ.get("GEMINI_API_KEY").
key_of(arg_key, env) == IF ~falsy(arg_key) THEN arg_key ELSE env.GEMINI_API_KEY

\* A faulty construction: the level is sent whatever the budget.
thinking_config_both(args) ==
    IF args.thinking_budget > 0
    THEN ("includeThoughts" :> ~args.no_thoughts) @@ ("thinkingBudget" :> args.thinking_budget)
         @@ ("thinkingLevel" :> args.thinking_level)
    ELSE ("includeThoughts" :> ~args.no_thoughts) @@ ("thinkingLevel" :> args.thinking_level)

\* thinking_config, a dict: includeThoughts and the field of the branch taken.
thinking_config_of(args) ==
    IF args.thinking_budget > 0
    THEN ("includeThoughts" :> ~args.no_thoughts) @@ ("thinkingBudget" :> args.thinking_budget)
    ELSE ("includeThoughts" :> ~args.no_thoughts) @@ ("thinkingLevel" :> args.thinking_level)

\* payload, a dict: contents, generationConfig and, unless --no-search, tools.
payload_of(args, prompt_text) ==
    LET base == ("contents" :> <<[parts |-> <<[text |-> prompt_text]>>]>>)
                @@ ("generationConfig" :> [maxOutputTokens |-> args.max_tokens,
                                           thinkingConfig |-> thinking_config_of(args)])
    IN  IF ~args.no_search THEN base @@ ("tools" :> <<[googleSearch |-> <<>>]>>) ELSE base

InitPayload ==
    /\ g_pc = "parsed"
    /\ g_args \in ParsedArgs
    /\ g_env \in Environments
    /\ g_prompt_text = None
    /\ g_api_key = None
    /\ g_payload = None
    /\ IdleProbe /\ IdleRegions /\ IdleSweep /\ IdleCatalog /\ IdlePool

\* 1. Get Prompt: sys.exit(1) without one.
GetPrompt ==
    /\ g_pc = "parsed"
    /\ g_prompt_text' = prompt_text_of(g_args, g_env)
    /\ g_pc' = IF falsy(g_prompt_text') THEN "exited" ELSE "prompted"
    /\ UNCHANGED <<g_args, g_env, g_api_key, g_payload, p_vars, r_vars, s_vars, c_vars, w_vars>>

\* api_key = get_api_key(args.api_key): sys.exit(1) without a key, or with the key "1234".
GetApiKey ==
    /\ g_pc = "prompted"
    /\ LET key == key_of(g_args.api_key, g_env)
       IN  IF falsy(key) \/ key = Some(<<"1","2","3","4">>)
           THEN g_pc' = "exited" /\ UNCHANGED g_api_key
           ELSE g_pc' = "keyed" /\ g_api_key' = key
    /\ UNCHANGED <<g_args, g_env, g_prompt_text, g_payload, p_vars, r_vars, s_vars, c_vars, w_vars>>

\* 2. Construct Payload, and Add Tools.
ConstructPayload ==
    /\ g_pc = "keyed"
    /\ g_payload' = Some(payload_of(g_args, g_prompt_text[1]))
    /\ g_pc' = "built"
    /\ UNCHANGED <<g_args, g_env, g_prompt_text, g_api_key, p_vars, r_vars, s_vars, c_vars, w_vars>>

\* 4. Send Request: json.dumps(payload) is posted; a response is read, or the client
\* exits on an HTTPError or another exception.
SendRequest ==
    /\ g_pc = "built"
    /\ \E outcome \in {"response", "HTTPError", "Exception"} :
          g_pc' = IF outcome = "response" THEN "answered" ELSE "exited"
    /\ UNCHANGED <<g_args, g_env, g_prompt_text, g_api_key, g_payload, p_vars, r_vars, s_vars, c_vars, w_vars>>

NextPayload ==
    \/ GetPrompt
    \/ GetApiKey
    \/ ConstructPayload
    \/ SendRequest

SpecPayload == InitPayload /\ [][NextPayload]_vars

----------------------------------------------------------------------------
(* Properties *)

ReportStatuses == {"available", "needs_eula", "needs_permission"}

\* The entries of the report for the candidate patterns[i].
entries_of(i) ==
    {k \in 1..Len(all_models) :
        all_models[k].publisher = patterns[i].publisher /\ all_models[k].model_id = patterns[i].model_id}

all_endpoints(i) == 1..Len(remote[i])

\* C1: the list discover_models returns is in strictly ascending order of
\* (publisher, model_id): it is sorted by that key and holds no key twice, whatever the
\* candidate list, the behaviour of the endpoints and the order the units complete in.
C1_ReportSortedNoDuplicates ==
    pc = "returned" =>
        \A i, j \in 1..Len(all_models) : i < j => key_less(all_models[i], all_models[j])

\* A sweep has returned a report of two models of one publisher.
C1_Witness ==
    /\ pc = "returned"
    /\ Len(all_models) >= 2
    /\ all_models[1].publisher = all_models[2].publisher

\* C2: every entry collected, in a global and in a regional sweep, while the sweep runs
\* and in the report returned, has one of the statuses available, needs_eula,
\* needs_permission.
C2_ReportStatuses ==
    \A k \in 1..Len(all_models) : all_models[k].status \in ReportStatuses

\* A regional sweep has returned a report whose entries have two different statuses,
\* an endpoint of a candidate left out being missing.
C2_Witness ==
    /\ pc = "returned"
    /\ regions # None
    /\ \E k, l \in 1..Len(all_models) : all_models[k].status # all_models[l].status
    /\ \E i \in 1..Len(patterns) : \E r \in all_endpoints(i) : remote[i][r] = "missing"

\* C3: the status check_model_in_regions returns is the highest one a probed region
\* returned, in the order available > needs_eula > needs_permission; a region that
\* returned None changes nothing.
C3_StatusPrecedence ==
    r_pc = "returned" =>
        LET seen == Range(r_outcomes)
        IN  /\ "available" \in seen => status_of(r_result) = "available"
            /\ "available" \notin seen /\ "needs_eula" \in seen => status_of(r_result) = "needs_eula"
            /\ "available" \notin seen /\ "needs_eula" \notin seen /\ "needs_permission" \in seen
                   => status_of(r_result) = "needs_permission"

\* The call has returned available for a model that a region probed earlier refused for
\* the EULA, another for a permission, and another did not have.
C3_Witness ==
    /\ r_pc = "returned"
    /\ status_of(r_result) = "available"
    /\ \E i, j \in 1..Len(r_outcomes) :
          i < j /\ r_outcomes[i] = "needs_eula" /\ r_outcomes[j] = "available"
    /\ {"needs_permission", "none"} \subseteq Range(r_outcomes)

\* The regions of region_list whose outcome is `status`, in the order of region_list.
RECURSIVE regions_with(_, _, _)
regions_with(region_list, outcomes, status) ==
    IF region_list = <<>> THEN <<>>
    ELSE (IF Head(outcomes) = status THEN <<Head(region_list)>> ELSE <<>>)
         \o regions_with(Tail(region_list), Tail(outcomes), status)

\* C4: the regions of the dict check_model_in_regions returns are the probed regions
\* whose outcome is the status returned, each once and in the order of the region list,
\* and there is at least one; a google model that only us-central1 answers with 200
\* gives status available, regions [us-central1], requires_eula false.
C4_WinningRegions ==
    r_pc = "returned" =>
        /\ r_result # None =>
              /\ r_result[1].regions = regions_with(r_args.regions, r_outcomes, r_result[1].status)
              /\ r_result[1].regions # <<>>
              /\ \A i, j \in 1..Len(r_result[1].regions) :
                    i # j => r_result[1].regions[i] # r_result[1].regions[j]
        /\ ( /\ r_args.publisher = <<"g","o","o","g","l","e">>
             /\ r_args.regions = CONTINENT_REGIONS["us"]
             /\ r_outcomes = <<"available", "none", "none", "none", "none", "none", "none">> )
           => r_result = Some([publisher |-> r_args.publisher, model_id |-> r_args.model_id,
                               status |-> "available", regions |-> <<"us-central1">>,
                               requires_eula |-> FALSE])

\* The call has returned for a google model that only us-central1, of the regions of the
\* United States, answered with 200.
C4_Witness ==
    /\ r_pc = "returned"
    /\ r_args.publisher = <<"g","o","o","g","l","e">>
    /\ r_args.regions = CONTINENT_REGIONS["us"]
    /\ r_outcomes = <<"available", "none", "none", "none", "none", "none", "none">>

\* Two regions share the status returned, a region of a weaker status between them.
C4_WitnessSeveral ==
    /\ r_pc = "returned"
    /\ r_result # None
    /\ Len(r_result[1].regions) >= 2
    /\ \E i \in 1..Len(r_outcomes) : r_outcomes[i] \notin {"none", r_result[1].status}

\* The letter `ch` is the letter `low` of a keyword, in either case.
same_letter(ch, low) == ch = low \/ (ord(ch) >= 65 /\ ord(ch) <= 90 /\ ord(ch) + 32 = ord(low))

mentions(text, keyword) ==
    \E at \in 0..(Len(text) - Len(keyword)) :
        \A j \in 1..Len(keyword) : same_letter(text[at + j], keyword[j])

mentions_eula(text) ==
    mentions(text, <<"a","g","r","e","e","m","e","n","t">>) \/ mentions(text, <<"e","u","l","a">>) \/ mentions(text, <<"t","e","r","m","s">>)

\* C5: the status a probe returns is decided by the HTTP status and, for 403, by the
\* body: 200 gives available; 403 with "agreement", "eula" or "terms" in the body, in
\* any letter case, gives needs_eula; 403 without gives needs_permission; so the body
\* "You must accept the EULA" gives needs_eula, "insufficient permissions" gives
\* needs_permission.
C5_Classification ==
    (p_pc = "returned" /\ p_response.kind = "response") =>
        /\ p_response.status_code = 200 => status_of(p_result) = "available"
        /\ (p_response.status_code = 403 /\ mentions_eula(p_response.text))
              => status_of(p_result) = "needs_eula"
        /\ (p_response.status_code = 403 /\ ~mentions_eula(p_response.text))
              => status_of(p_result) = "needs_permission"
        /\ (p_response.status_code = 403 /\ p_response.text = <<"Y","o","u"," ","m","u","s","t"," ","a","c","c","e","p","t"," ","t","h","e"," ","E","U","L","A">>)
              => status_of(p_result) = "needs_eula"
        /\ (p_response.status_code = 403 /\ p_response.text = <<"i","n","s","u","f","f","i","c","i","e","n","t"," ","p","e","r","m","i","s","s","i","o","n","s">>)
              => status_of(p_result) = "needs_permission"

\* A probe answered 403 "You must accept the EULA" has returned.
C5_Witness ==
    /\ p_pc = "returned"
    /\ p_response = HttpResponse(403, <<"Y","o","u"," ","m","u","s","t"," ","a","c","c","e","p","t"," ","t","h","e"," ","E","U","L","A">>)
    /\ status_of(p_result) = "needs_eula"

\* Every endpoint of the candidate patterns[i] answers 404 or another status that is not
\* 200 or 403, times out, or fails in the transport.
all_absent(i) == \A r \in all_endpoints(i) : remote[i][r] \in {"missing", "failing"}

\* C6: a candidate whose every probe ends in a 404, another status that is not 200 or
\* 403, a timeout or a transport exception has no entry in the report returned, in a
\* global and in a regional sweep.
C6_AbsentCandidateNotReported ==
    pc = "returned" => \A i \in 1..Len(patterns) : all_absent(i) => entries_of(i) = {}

\* A regional sweep has returned a report with an entry, and without one for a candidate
\* whose regions are all absent.
C6_Witness ==
    /\ pc = "returned"
    /\ regions # None
    /\ all_models # <<>>
    /\ \E i \in 1..Len(patterns) : all_absent(i) /\ entries_of(i) = {}

\* C7: an exception in a unit of work counts as absent and never aborts the sweep: the
\* sweep is never left by an exception, every unit is collected, the result of every
\* unit that has one is in the report, and no entry rests on an endpoint whose probe
\* raised.
C7_ExceptionIsAbsent ==
    /\ pc # "aborted"
    /\ pc = "returned" =>
          /\ completed = Len(patterns)
          /\ \A i \in 1..Len(patterns) :
                /\ ~futures[i].outcome.raised
                /\ futures[i].outcome.value # None =>
                      \E k \in 1..Len(all_models) : all_models[k] = futures[i].outcome.value[1]
                /\ (\E r \in all_endpoints(i) : remote[i][r] \notin {"missing", "failing"})
                      => entries_of(i) # {}
                /\ regions = None /\ remote[i][1] = "failing" => entries_of(i) = {}
                /\ regions # None =>
                      \A k \in entries_of(i) : \A r \in all_endpoints(i) :
                          remote[i][r] = "failing" => regions[1][r] \notin Range(all_models[k].regions)

\* A sweep has returned the result of one unit, a probe of another unit having raised.
C7_Witness ==
    /\ pc = "returned"
    /\ \E i, j \in 1..Len(patterns) :
          /\ i # j
          /\ \E r \in all_endpoints(i) : remote[i][r] = "failing"
          /\ entries_of(i) = {}
          /\ entries_of(j) # {}

\* The listing gave nothing to go on: the command raised, failed, or printed no line that
\* is kept.
listing_unusable(run) ==
    \/ run.kind # "completed"
    \/ run.returncode # 0
    \/ listed_models(split_lines(strip(run.stdout))) = <<>>

\* C8: when the dynamic listing is asked for and raises, fails, times out or returns no
\* usable entry, discover_models goes on, with a candidate list that is not empty and
\* holds every pair of the static table.
C8_FallsBackToStatic ==
    (c_pc # "start" /\ ~c_use_static /\ listing_unusable(c_run)) =>
        /\ c_pc = "loaded"
        /\ c_patterns # <<>>
        /\ Range(static_patterns) \subseteq Range(c_patterns)

\* C8, for the failures fetch_model_garden_models handles: a return code that is not 0,
\* a timeout, a gcloud that is not installed, a listing with no line that is kept.
C8_HandledFailuresFallBack ==
    (c_pc # "start" /\ ~c_use_static /\ listing_unusable(c_run)
        /\ c_run.kind \in {"completed", "TimeoutExpired", "FileNotFoundError"}) =>
        /\ c_pc = "loaded"
        /\ c_patterns = static_patterns

\* C9 as stated: requires_eula is false for google and true for any other publisher, in
\* every entry.
C9_RequiresEulaByPublisher ==
    \A k \in 1..Len(all_models) :
        all_models[k].requires_eula = (all_models[k].publisher # <<"g","o","o","g","l","e">>)

\* C9, amended: requires_eula is false for google and true for any other publisher,
\* except in the needs_eula entries of a global sweep, where it is true for google too.
C9_RequiresEulaAmended ==
    \A k \in 1..Len(all_models) :
        all_models[k].requires_eula =
            (all_models[k].publisher # <<"g","o","o","g","l","e">> \/ (regions = None /\ all_models[k].status = "needs_eula"))

\* A global sweep has returned an entry of google with the status needs_eula, which
\* requires the EULA.
C9_Witness ==
    /\ pc = "returned"
    /\ regions = None
    /\ \E k \in 1..Len(all_models) :
          /\ all_models[k].publisher = <<"g","o","o","g","l","e">>
          /\ all_models[k].status = "needs_eula"
          /\ all_models[k].requires_eula

\* A regional sweep has returned an entry of google with the status needs_eula, which
\* does not require the EULA.
C9_WitnessRegional ==
    /\ pc = "returned"
    /\ regions # None
    /\ \E k \in 1..Len(all_models) :
          /\ all_models[k].publisher = <<"g","o","o","g","l","e">>
          /\ all_models[k].status = "needs_eula"
          /\ ~all_models[k].requires_eula

\* The results of the units of the sweep, as a set: it reads the candidates and the
\* behaviour of their endpoints, and neither the order of the list nor that of completion.
unit_results ==
    {outcome.value[1] : outcome \in {o \in UNION {unit_outcomes(i) : i \in 1..Len(patterns)} : o.value # None}}

\* C10: the report returned is decided by the candidate set and the behaviour of each
\* (candidate, endpoint): it holds the result of each unit that has one, once, in
\* ascending order of (publisher, model_id).  So two sweeps of one candidate set against
\* an unchanged remote return the same list, whatever the order of the candidate list
\* and of the completions.
C10_ReportIsDetermined ==
    pc = "returned" =>
        /\ Range(all_models) = unit_results
        /\ Len(all_models) = Cardinality(unit_results)
        /\ \A i \in 1..(Len(all_models) - 1) : key_less(all_models[i], all_models[i + 1])

\* A regional sweep has returned two entries, for candidates listed in the other order.
C10_Witness ==
    /\ pc = "returned"
    /\ regions # None
    /\ Len(all_models) = 2
    /\ \E i, j \in 1..Len(patterns) :
          i < j /\ entries_of(i) = {2} /\ entries_of(j) = {1}

\* C11: at every moment of a sweep at most 20 units of work are executing if it is a
\* global sweep and at most 10 if it is a regional one, no more worker threads than that
\* exist, and as many requests at most are in flight, a unit making its requests one
\* after another.
C11_PoolBound ==
    LET size == IF w_regions = None THEN 20 ELSE 10
    IN  /\ w_running <= size
        /\ w_threads <= size
        /\ in_flight <= size
        /\ in_flight <= w_running

\* The pool of a global sweep is full while units wait in the queue: 20 units are
\* executing, each with a request in flight.
C11_Witness ==
    /\ w_regions = None
    /\ w_queue > 0
    /\ w_running = 20
    /\ in_flight = 20

\* The same for a regional sweep, requests to several regions being in flight.
C11_WitnessRegional ==
    /\ w_regions # None
    /\ w_queue > 0
    /\ w_running = 10
    /\ \A r \in 1..Len(w_at) : w_at[r] > 0

\* C12: when every request ends and the threads are scheduled fairly, the sweep
\* eventually returns its report, every unit collected, whatever the candidates and the
\* behaviour of the endpoints: a request that times out leaves its unit without a result
\* for that endpoint and holds up no other unit.
C12_SweepTerminates ==
    <>(pc = "returned" /\ completed = Len(patterns)
       /\ \A i \in 1..Len(futures) : futures[i].state = "yielded")

\* A sweep of several candidates, no endpoint of which answers (404, 500 or a timeout),
\* has returned the empty report.
C12_Witness ==
    /\ pc = "returned"
    /\ all_models = <<>>
    /\ Len(patterns) >= 2
    /\ \A i \in 1..Len(patterns) : \A r \in all_endpoints(i) : remote[i][r] = "missing"

\* One call to each endpoint of a unit: to each region of the sweep, or to the global one.
one_call_each == [r \in 1..endpoints_of(regions) |-> 1]

\* C13: no request is made twice: a unit that has finished has made exactly one
\* requests.post call for each of its endpoints (each region of a regional sweep, the
\* global endpoint otherwise), whatever the calls did, a unit that has not has been
\* counted none, and the sweep that has returned has made len(patterns) x len(regions)
\* calls, or len(patterns).
C13_OneCallPerEndpoint ==
    /\ \A i \in 1..Len(calls) :
          calls[i] = IF futures[i].state \in {"finished", "yielded"} THEN one_call_each ELSE <<>>
    /\ pc = "returned" =>
          sum([i \in 1..Len(calls) |-> sum(calls[i])]) = Len(patterns) * endpoints_of(regions)

\* A regional sweep of two candidates has returned, a request of which timed out or
\* found nothing and another raised an exception: six calls were made.
C13_Witness ==
    /\ pc = "returned"
    /\ regions # None
    /\ Len(patterns) = 2
    /\ \E i, j \in 1..Len(patterns) : \E r, q \in 1..Len(regions[1]) :
          remote[i][r] = "missing" /\ remote[j][q] = "failing"
    /\ sum([i \in 1..Len(calls) |-> sum(calls[i])]) = 6

\* C14: the report is sorted and returned only when every unit submitted has finished and
\* been collected; a unit has a result only when the requests to all its endpoints have
\* returned; and while a unit is pending or running the sweep has returned nothing and
\* holds no entry of that unit.
C14_ReportAfterAllUnits ==
    /\ pc = "returned" =>
          /\ \A i \in 1..Len(futures) : futures[i].state = "yielded"
          /\ completed = Len(patterns)
    /\ \A i \in 1..Len(futures) :
          /\ futures[i].state \in {"finished", "yielded"} => Len(calls[i]) = endpoints_of(regions)
          /\ futures[i].state \in {"pending", "running"} =>
                /\ futures[i].outcome.value = None
                /\ Len(calls[i]) = 0
                /\ entries_of(i) = {}
                /\ pc = "collecting"

\* A regional sweep of several candidates has returned an entry reduced from the answers
\* of two regions or more.
C14_Witness ==
    /\ pc = "returned"
    /\ regions # None
    /\ Len(patterns) >= 2
    /\ \E k \in 1..Len(all_models) : Len(all_models[k].regions) >= 2

\* The result of one unit has been collected while another unit is still running: the
\* sweep has not returned.
C14_WitnessPending ==
    /\ pc = "collecting"
    /\ all_models # <<>>
    /\ \E i \in 1..Len(futures) : futures[i].state = "running"

\* The lines of a text: its longest stretches without a newline.
lines_of(text) ==
    {SubSeq(text, a, CHOOSE b \in a..Len(text) :
                        /\ \A k \in a..b : text[k] # "\n"
                        /\ b = Len(text) \/ text[b + 1] = "\n") :
        a \in {x \in 1..Len(text) : /\ text[x] # "\n"
                                    /\ x = 1 \/ text[x - 1] = "\n"}}

\* The modelId a line of the form publishers/<publisher>/models/<modelId> names for a
\* publisher, or nothing.
named_on(line, publisher) ==
    LET prefix == <<"p","u","b","l","i","s","h","e","r","s","/">> \o publisher \o <<"/","m","o","d","e","l","s","/">>
    IN  IF Len(line) > Len(prefix) /\ SubSeq(line, 1, Len(prefix)) = prefix
        THEN {SubSeq(line, Len(prefix) + 1, Len(line))}
        ELSE {}

\* The pairs (publisher, modelId) the listing names on a line of the form
\* publishers/<publisher>/models/<modelId>, the publisher being in the allow-list and
\* the modelId holding an LLM pattern in any letter case.
usable_entries(stdout) ==
    UNION { {[publisher |-> PUBLISHERS[n], model_id |-> id] :
                id \in {x \in named_on(line, PUBLISHERS[n]) :
                           \E p \in 1..Len(LLM_PATTERNS) : mentions(x, LLM_PATTERNS[p])}}
            : <<line, n>> \in lines_of(stdout) \X (1..Len(PUBLISHERS)) }

\* The entries whose modelId holds an '@', the modelId cut at its first '@'.
cut_entries(entries) ==
    UNION { {[publisher |-> e.publisher, model_id |-> SubSeq(e.model_id, 1, k - 1)] :
                k \in {at \in 1..Len(e.model_id) :
                          /\ e.model_id[at] = "@"
                          /\ \A j \in 1..(at - 1) : e.model_id[j] # "@"}}
            : e \in entries }

mistral_entries ==
    {[publisher |-> <<"m","i","s","t","r","a","l","-","a","i">>, model_id |-> id] :
        id \in {<<"m","i","s","t","r","a","l","-","m","e","d","i","u","m","-","3">>, <<"m","i","s","t","r","a","l","-","s","m","a","l","l","-","2","5","0","3">>, <<"m","i","s","t","r","a","l","-","o","c","r">>,
                <<"m","i","s","t","r","a","l","-","l","a","r","g","e","-","2","4","0","7">>, <<"c","o","d","e","s","t","r","a","l","-","2">>, <<"c","o","d","e","s","t","r","a","l","-","2","4","0","5">>}}

yielded == {i \in 1..Len(futures) : futures[i].state = "yielded"}

\* What the collector holds, in every state: the counter is the number of futures
\* yielded; each candidate whose future was yielded with a result has one entry, that
\* result, and every other candidate none; every entry is that of a candidate.
collector_state ==
    /\ completed = Cardinality(yielded)
    /\ completed <= Len(patterns)
    /\ \A i \in 1..Len(patterns) :
          IF i \in yielded /\ ~futures[i].outcome.raised /\ futures[i].outcome.value # None
          THEN /\ Cardinality(entries_of(i)) = 1
               /\ \A k \in entries_of(i) : all_models[k] = futures[i].outcome.value[1]
          ELSE entries_of(i) = {}
    /\ \A k \in 1..Len(all_models) : \E i \in 1..Len(patterns) : k \in entries_of(i)
    /\ pc = "returned" => yielded = 1..Len(patterns) /\ completed = Len(patterns)

\* What a step does to the counter: it is written in the iteration of the collecting
\* loop that is handed a future, and nowhere else, and it rises by one there.
collector_step ==
    /\ completed' \in {completed, completed + 1}
    /\ completed' = completed + 1 <=>
          /\ pc = "collecting"
          /\ \E i \in 1..Len(futures) :
                /\ futures[i].state = "finished"
                /\ yielded' = yielded \cup {i}
                /\ i \notin yielded
    /\ completed' = completed => yielded' = yielded /\ Len(all_models') = Len(all_models)

\* C16: in whatever order the units complete, the collector loses and repeats no result:
\* the report holds exactly one entry for each candidate whose unit returned a result,
\* none for any other candidate and none for a pair that is not a candidate; the progress
\* counter goes from 1 to len(patterns), by one for each future yielded, and only the
\* collecting loop writes it.
C16_NoResultLostOrDuplicated == [](collector_state) /\ [][collector_step]_vars

\* The second unit submitted was collected, with a result, while the first was still
\* running: the counter is 1 and the list holds that one entry.
C16_Witness ==
    /\ pc = "collecting"
    /\ Len(patterns) = 2
    /\ futures[1].state = "running"
    /\ futures[2].state = "yielded"
    /\ completed = 1
    /\ Len(all_models) = 1
    /\ entries_of(2) = {1}

\* A sweep of two candidates has returned: one had a result and one had none, the counter
\* reached 2 and the report holds one entry.
C16_WitnessReturned ==
    /\ pc = "returned"
    /\ Len(patterns) = 2
    /\ completed = 2
    /\ Len(all_models) = 1
    /\ \E i \in 1..2 : futures[i].outcome.value = None

\* The thinkingConfig of the payload built.
thinkingConfig == g_payload[1]["generationConfig"].thinkingConfig

\* C17: the thinkingConfig of the payload the client builds holds exactly one of
\* thinkingBudget and thinkingLevel: thinkingBudget, with the value of -b, when that value
\* is greater than 0, and thinkingLevel, with the level of -t, when it is 0 or negative.
C17_BudgetOrLevel ==
    g_payload # None =>
        /\ Cardinality(DOMAIN thinkingConfig \cap {"thinkingBudget", "thinkingLevel"}) = 1
        /\ g_args.thinking_budget > 0 =>
              /\ "thinkingBudget" \in DOMAIN thinkingConfig
              /\ thinkingConfig["thinkingBudget"] = g_args.thinking_budget
        /\ g_args.thinking_budget <= 0 =>
              /\ "thinkingLevel" \in DOMAIN thinkingConfig
              /\ thinkingConfig["thinkingLevel"] = g_args.thinking_level

\* A payload was built for a budget greater than 0 given with a level other than the
\* default: it holds the budget and no level.
C17_Witness ==
    /\ g_pc = "built"
    /\ g_args.thinking_budget = MaxBudget
    /\ g_args.thinking_level = "low"
    /\ DOMAIN thinkingConfig = {"includeThoughts", "thinkingBudget"}

\* A payload was built for a negative budget: it holds the level and no budget.
C17_WitnessNegative ==
    /\ g_pc = "built"
    /\ g_args.thinking_budget < 0
    /\ DOMAIN thinkingConfig = {"includeThoughts", "thinkingLevel"}
    /\ thinkingConfig["thinkingLevel"] = "medium"

====
